---------------------------- MODULE Spec2Model ----------------------------
(***************************************************************************)
(* A model of scpi/__init__.py: the command-expression analyzer            *)
(* (min_max_cmd, cmd_expr_to_reg_expr_str, cmd_expr_to_reg_expr), the      *)
(* Commands registry with its abbreviation cache, and sanitize_msgs.       *)
(*                                                                         *)
(* A Python str is a sequence of one-character strings: "Ab" is            *)
(* <<"A", "b">>.  A dict is a sequence of items in insertion order (the    *)
(* backing map) or a function (the cache, whose order no code reads).      *)
(***************************************************************************)
EXTENDS Integers, Sequences, FiniteSets, TLC

(***************************************************************************)
(* Characters and the str methods the code calls.                          *)
(***************************************************************************)
LowerChars == {"a", "b"}

Whitespace == {" ", "\t", "\n"}

\* str.islower() of one character
islower(c) == c \in LowerChars

\* str.upper() of one character
upper_char(c) == IF c = "a" THEN "A" ELSE IF c = "b" THEN "B" ELSE c

\* str.upper()
upper(s) == [i \in 1..Len(s) |-> upper_char(s[i])]

RECURSIVE lstrip(_, _)
\* str.lstrip(chars)
lstrip(s, chars) ==
    IF s # <<>> /\ Head(s) \in chars THEN lstrip(Tail(s), chars) ELSE s

RECURSIVE rstrip(_, _)
\* str.rstrip(chars)
rstrip(s, chars) ==
    IF s # <<>> /\ s[Len(s)] \in chars
    THEN rstrip(SubSeq(s, 1, Len(s) - 1), chars) ELSE s

\* str.strip()
strip(s) == rstrip(lstrip(s, Whitespace), Whitespace)

RECURSIVE remove_chars(_, _)
\* s.replace(c, "") for every c of chars
remove_chars(s, chars) ==
    IF s = <<>> THEN <<>>
    ELSE IF Head(s) \in chars THEN remove_chars(Tail(s), chars)
    ELSE <<Head(s)>> \o remove_chars(Tail(s), chars)

\* All sequences over S of length at most n
SeqsUpTo(S, n) == UNION {[1..k -> S] : k \in 0..n}

(***************************************************************************)
(* min_max_cmd                                                             *)
(***************************************************************************)
RECURSIVE min_loop(_, _, _, _)
\* the for loop of min_max_cmd from character i on, with its two locals
min_loop(cmd_expr, i, optional, result_min) ==
    IF i > Len(cmd_expr) THEN result_min
    ELSE LET c == cmd_expr[i] IN
         IF islower(c) THEN min_loop(cmd_expr, i + 1, optional, result_min)
         ELSE IF c = "[" THEN min_loop(cmd_expr, i + 1, optional + 1, result_min)
         ELSE IF c = "]" THEN min_loop(cmd_expr, i + 1, optional - 1, result_min)
         ELSE IF optional # 0 THEN min_loop(cmd_expr, i + 1, optional, result_min)
         ELSE min_loop(cmd_expr, i + 1, optional, Append(result_min, c))

min_max_cmd(cmd_expr) ==
    [min |-> lstrip(min_loop(cmd_expr, 1, 0, <<>>), {":"}),
     max |-> lstrip(upper(remove_chars(cmd_expr, {"[", "]"})), {":"})]

(***************************************************************************)
(* cmd_expr_to_reg_expr_str: the pattern text, character by character      *)
(***************************************************************************)
\* the text appended to reg_expr for the character c
reg_expr_piece(c, low_zone) ==
    LET cl == islower(c)
        close == IF ~cl /\ low_zone THEN <<")", "?">> ELSE <<>>
        body == IF c = "[" THEN <<"(">>
                ELSE IF c = "]" THEN <<")", "?">>
                ELSE IF cl THEN (IF ~low_zone THEN <<"(">> ELSE <<>>) \o <<upper_char(c)>>
                ELSE IF c \in {"*", ":"} THEN <<"\\", c>>
                ELSE <<c>>
    IN close \o body

RECURSIVE reg_loop(_, _, _, _)
\* the for loop of cmd_expr_to_reg_expr_str from character i on
reg_loop(cmd_expr, i, low_zone, reg_expr) ==
    IF i > Len(cmd_expr)
    THEN (IF low_zone THEN reg_expr \o <<")", "?">> ELSE reg_expr) \o <<"$">>
    ELSE reg_loop(cmd_expr, i + 1, islower(cmd_expr[i]),
                  reg_expr \o reg_expr_piece(cmd_expr[i], low_zone))

cmd_expr_to_reg_expr_str(cmd_expr) ==
    reg_loop(cmd_expr, 1, FALSE, <<"\\", ":", "?">>)

(***************************************************************************)
(* re.compile and Pattern.match, for the patterns the code builds:         *)
(* literals, escaped literals, groups, "?" after an item, "$".             *)
(***************************************************************************)
RECURSIVE paren_scan(_, _, _)
\* TRUE iff the parentheses of pattern[i..] close what is open and no more
paren_scan(pattern, i, depth) ==
    IF i > Len(pattern) THEN depth = 0
    ELSE IF pattern[i] = "\\" THEN paren_scan(pattern, i + 2, depth)
    ELSE IF pattern[i] = "(" THEN paren_scan(pattern, i + 1, depth + 1)
    ELSE IF pattern[i] = ")" THEN depth > 0 /\ paren_scan(pattern, i + 1, depth - 1)
    ELSE paren_scan(pattern, i + 1, depth)

\* re.compile raises re.error on a "(" never closed or a ")" never opened
re_compiles(pattern) == paren_scan(pattern, 1, 0)

RECURSIVE close_paren(_, _, _)
\* index of the ")" closing the group whose inside starts at i
close_paren(pattern, i, depth) ==
    IF pattern[i] = "\\" THEN close_paren(pattern, i + 2, depth)
    ELSE IF pattern[i] = "(" THEN close_paren(pattern, i + 1, depth + 1)
    ELSE IF pattern[i] = ")"
         THEN (IF depth = 0 THEN i ELSE close_paren(pattern, i + 1, depth - 1))
    ELSE close_paren(pattern, i + 1, depth)

\* positions after one literal c matched case-insensitively (re.IGNORECASE)
lit_step(c, text, P) ==
    {p + 1 : p \in {q \in P : q < Len(text) /\ upper_char(text[q + 1]) = upper_char(c)}}

\* "$": at the end of the text, or just before a newline that ends it
end_step(text, P) ==
    {p \in P : \/ p = Len(text)
               \/ p = Len(text) - 1 /\ text[Len(text)] = "\n"}

RECURSIVE match_seq(_, _, _, _, _)
\* the numbers of characters of text that pattern[i..j-1] can consume,
\* starting from any of the numbers in P
match_seq(pattern, i, j, text, P) ==
    IF i >= j THEN P
    ELSE LET c == pattern[i]
             atom_end == IF c = "\\" THEN i + 2
                         ELSE IF c = "(" THEN close_paren(pattern, i + 1, 0) + 1
                         ELSE i + 1
             once == IF c = "\\" THEN lit_step(pattern[i + 1], text, P)
                     ELSE IF c = "(" THEN match_seq(pattern, i + 1, atom_end - 1, text, P)
                     ELSE IF c = "$" THEN end_step(text, P)
                     ELSE lit_step(c, text, P)
             opt == atom_end < j /\ pattern[atom_end] = "?"
         IN match_seq(pattern, IF opt THEN atom_end + 1 ELSE atom_end, j, text,
                      IF opt THEN P \cup once ELSE once)

\* Pattern.match(text): the pattern matches at the start of text
re_match(pattern, text) == match_seq(pattern, 1, Len(pattern) + 1, text, {0}) # {}

\* cmd_expr_to_reg_expr: the compiled pattern, or the re.error raised
cmd_expr_to_reg_expr(cmd_expr) ==
    LET pattern == cmd_expr_to_reg_expr_str(cmd_expr) IN
    [exc |-> IF re_compiles(pattern) THEN "none" ELSE "re.error", val |-> pattern]


(***************************************************************************)
(* dict: the backing map is a sequence of items [key, val] in insertion    *)
(* order, as a Python dict keeps them.                                     *)
(***************************************************************************)
dict_keys(d) == {d[i].key : i \in 1..Len(d)}

dict_index(d, k) == CHOOSE i \in 1..Len(d) : d[i].key = k

\* d[k]
dict_get(d, k) == d[dict_index(d, k)].val

\* d[k] = v: a key already there keeps its place
dict_set(d, k, v) ==
    IF k \in dict_keys(d) THEN [d EXCEPT ![dict_index(d, k)].val = v]
    ELSE Append(d, [key |-> k, val |-> v])

\* d.pop(k), for a key that is there: what is left of d
dict_pop(d, k) ==
    LET i == dict_index(d, k) IN SubSeq(d, 1, i - 1) \o SubSeq(d, i + 1, Len(d))

RECURSIVE dict_update(_, _)
\* d.update(other)
dict_update(d, other) ==
    IF other = <<>> THEN d
    ELSE dict_update(dict_set(d, Head(other).key, Head(other).val), Tail(other))

(***************************************************************************)
(* Commands.  A registry is [command_expressions, _command_cache]; every   *)
(* method is an operator giving the registry after the call and what the   *)
(* call returned (exc = "none") or raised (exc, with the exception's       *)
(* argument as val).                                                       *)
(***************************************************************************)
None == "None"

\* Commands(): the two empty dicts of __init__
EmptyCommands == [command_expressions |-> <<>>, _command_cache |-> [k \in {} |-> <<>>]]

Result(self, exc, val) == [self |-> self, exc |-> exc, val |-> val]

RECURSIVE first_match(_, _, _)
\* the for loop of get_command_expression from item i on: the index of the
\* first item whose pattern matches cmd_name, 0 when the loop ends
first_match(command_expressions, cmd_name, i) ==
    IF i > Len(command_expressions) THEN 0
    ELSE IF re_match(command_expressions[i].val.re, cmd_name) THEN i
    ELSE first_match(command_expressions, cmd_name, i + 1)

\* a variant of cache_miss that raises with the normalized text
cache_miss_upper(self, cmd_name, i) ==
    IF i = 0 THEN Result(self, "KeyError", upper(cmd_name))
    ELSE Result([self EXCEPT !._command_cache =
                     (upper(cmd_name) :> self.command_expressions[i].key)
                         @@ self._command_cache],
                "none", self.command_expressions[i].key)

\* the except branch of get_command_expression, the loop having stopped at
\* item i (0: it ran to its end)
cache_miss(self, cmd_name, i) ==
    IF i = 0 THEN Result(self, "KeyError", cmd_name)
    ELSE Result([self EXCEPT !._command_cache =
                     (upper(cmd_name) :> self.command_expressions[i].key)
                         @@ self._command_cache],
                "none", self.command_expressions[i].key)

\* the try branch of get_command_expression
cache_probe(self, cmd_name, cmd_name_u) ==
    IF cmd_name_u \in DOMAIN self._command_cache
    THEN Result(self, "none", self._command_cache[cmd_name_u])
    ELSE cache_miss(self, cmd_name, first_match(self.command_expressions, cmd_name, 1))

get_command_expression(self, cmd_name) == cache_probe(self, cmd_name, upper(cmd_name))

\* self.command_expressions[cmd_expr], r what get_command_expression gave
command_of(r) ==
    IF r.exc # "none" THEN r
    ELSE IF r.val \notin dict_keys(r.self.command_expressions)
    THEN Result(r.self, "KeyError", r.val)
    ELSE Result(r.self, "none", dict_get(r.self.command_expressions, r.val))

get_command(self, cmd_name) == command_of(get_command_expression(self, cmd_name))

\* r['value'], r what get_command gave
value_of(r) == IF r.exc # "none" THEN r ELSE Result(r.self, "none", r.val.value)

\* __getitem__
getitem(self, cmd_name) == value_of(get_command(self, cmd_name))

\* the try statement of get, r what self[cmd_name] gave
or_default(r, default) ==
    IF r.exc = "KeyError" THEN Result(r.self, "none", default) ELSE r

get(self, cmd_name, default) == or_default(getitem(self, cmd_name), default)

\* r is not None, r what get gave
is_not_none(r) == Result(r.self, r.exc, r.val # None)

\* __contains__
contains(self, cmd_name) == is_not_none(get(self, cmd_name, None))

\* __len__
len(self) == Len(self.command_expressions)

\* the end of __setitem__: r2 is what the lookup of max_cmd gave
setitem_return(r2, cmd_info) ==
    IF r2.exc # "none" THEN r2 ELSE Result(r2.self, "none", cmd_info)

\* a variant of setitem_max that leaves the lookup of max_cmd out
setitem_max_skipped(r1, cmd_info) ==
    IF r1.exc # "none" THEN r1 ELSE Result(r1.self, "none", cmd_info)

\* __setitem__ after the lookup of min_cmd, which gave r1
setitem_max(r1, cmd_info) ==
    IF r1.exc # "none" THEN r1
    ELSE setitem_return(get_command_expression(r1.self, cmd_info.max_command), cmd_info)

\* a variant of setitem_store that adds an item whether the key is there or not
setitem_store_appended(self, cmd_expr, cmd_info) ==
    setitem_max(get_command_expression(
                    [self EXCEPT !.command_expressions =
                         Append(@, [key |-> cmd_expr, val |-> cmd_info])],
                    cmd_info.min_command),
                cmd_info)

\* __setitem__ from the assignment to command_expressions on
setitem_store(self, cmd_expr, cmd_info) ==
    setitem_max(get_command_expression(
                    [self EXCEPT !.command_expressions = dict_set(@, cmd_expr, cmd_info)],
                    cmd_info.min_command),
                cmd_info)

\* a variant of setitem_info that stores the entry before the pattern is
\* known to compile
setitem_info_stored(self, cmd_expr, command, mm, compiled) ==
    IF compiled.exc # "none"
    THEN Result([self EXCEPT !.command_expressions =
                     dict_set(@, cmd_expr,
                              [value |-> command, re |-> compiled.val,
                               min_command |-> mm.min, max_command |-> mm.max])],
                compiled.exc, compiled.val)
    ELSE setitem_store(self, cmd_expr,
                       [value |-> command, re |-> compiled.val,
                        min_command |-> mm.min, max_command |-> mm.max])

\* __setitem__ once min_max_cmd gave mm and cmd_expr_to_reg_expr gave compiled
setitem_info(self, cmd_expr, command, mm, compiled) ==
    IF compiled.exc # "none" THEN Result(self, compiled.exc, compiled.val)
    ELSE setitem_store(self, cmd_expr,
                       [value |-> command, re |-> compiled.val,
                        min_command |-> mm.min, max_command |-> mm.max])

\* __setitem__
setitem(self, cmd_expr, command) ==
    setitem_info(self, cmd_expr, command, min_max_cmd(cmd_expr),
                 cmd_expr_to_reg_expr(cmd_expr))

\* a variant of delitem_cache that leaves the cache as it is
delitem_cache_kept(self, cmd_expr, reg_expr) ==
    Result([command_expressions |-> dict_pop(self.command_expressions, cmd_expr),
            _command_cache |-> self._command_cache],
           "none", None)

\* __delitem__ after the pop, which gave the entry's pattern reg_expr
delitem_cache(self, cmd_expr, reg_expr) ==
    Result([command_expressions |-> dict_pop(self.command_expressions, cmd_expr),
            _command_cache |->
                [k \in {c \in DOMAIN self._command_cache : ~re_match(reg_expr, c)} |->
                     self._command_cache[k]]],
           "none", None)

\* __delitem__
delitem(self, cmd_expr) ==
    IF cmd_expr \notin dict_keys(self.command_expressions)
    THEN Result(self, "KeyError", cmd_expr)
    ELSE delitem_cache(self, cmd_expr, dict_get(self.command_expressions, cmd_expr).re)

clear(self) == Result(EmptyCommands, "none", None)

\* a variant of update_commands that merges the cache alone
update_commands_cache_only(self, commands) ==
    Result([command_expressions |-> self.command_expressions,
            _command_cache |-> commands._command_cache @@ self._command_cache],
           "none", None)

\* update(commands) with another Commands object
update_commands(self, commands) ==
    Result([command_expressions |->
                dict_update(self.command_expressions, commands.command_expressions),
            _command_cache |-> commands._command_cache @@ self._command_cache],
           "none", None)

RECURSIVE update_pairs(_, _)
\* a variant of update_rest that stops after the first pair
update_rest_stopped(r, rest) == IF r.exc # "none" THEN r ELSE Result(r.self, "none", None)

\* the loop of update after one __setitem__, which gave r
update_rest(r, rest) == IF r.exc # "none" THEN r ELSE update_pairs(r.self, rest)

\* update(commands) with a dict or a sequence of pairs: the loop stops at the
\* first __setitem__ that raises
update_pairs(self, commands) ==
    IF commands = <<>> THEN Result(self, "none", None)
    ELSE update_rest(setitem(self, Head(commands)[1], Head(commands)[2]), Tail(commands))

(***************************************************************************)
(* sanitize_msgs.  eol and sep are one character each.                     *)
(***************************************************************************)
RECURSIVE join(_, _)
\* glue.join(parts)
join(glue, parts) ==
    IF parts = <<>> THEN <<>>
    ELSE IF Len(parts) = 1 THEN parts[1]
    ELSE parts[1] \o glue \o join(glue, Tail(parts))

RECURSIVE split_from(_, _, _, _)
\* s.split(c) from character i on, part being the piece read so far
split_from(s, c, i, part) ==
    IF i > Len(s) THEN <<part>>
    ELSE IF s[i] = c THEN <<part>> \o split_from(s, c, i + 1, <<>>)
    ELSE split_from(s, c, i + 1, Append(part, s[i]))

\* s.split(c)
split(s, c) == split_from(s, c, 1, <<>>)

\* "?" in cmd
is_query(cmd) == \E i \in 1..Len(cmd) : cmd[i] = "?"

\* the locals of sanitize_msgs
SanitizeLocals == [result |-> <<>>, commands |-> <<>>, queries |-> <<>>, sub_result |-> <<>>]

\* a variant of flush that keeps the first piece of the group alone
flush_first(st, sep) ==
    IF st.sub_result = <<>> THEN st
    ELSE [st EXCEPT !.result = Append(@, Head(st.sub_result)), !.sub_result = <<>>]

\* result.append(sep.join(sub_result)); sub_result = []   (if sub_result)
flush(st, sep) ==
    IF st.sub_result = <<>> THEN st
    ELSE [st EXCEPT !.result = Append(@, join(<<sep>>, st.sub_result)), !.sub_result = <<>>]

\* a variant of place_cmd that does not flush the pending group before a query
place_cmd_unflushed(st, cmd, sep, strict_query) ==
    IF is_query(cmd) /\ strict_query
    THEN [st EXCEPT !.result = Append(@, cmd)]
    ELSE [st EXCEPT !.sub_result = Append(@, cmd)]

\* the if/else that ends the inner loop's body
place_cmd(st, cmd, sep, strict_query) ==
    IF is_query(cmd) /\ strict_query
    THEN [flush(st, sep) EXCEPT !.result = Append(@, cmd)]
    ELSE [st EXCEPT !.sub_result = Append(@, cmd)]

\* a variant of record_cmd that takes every piece for a query
record_cmd_all_queries(st, cmd) ==
    [st EXCEPT !.commands = Append(@, cmd), !.queries = Append(@, cmd)]

\* commands.append(cmd), and queries.append(cmd) for a query
record_cmd(st, cmd) ==
    [st EXCEPT !.commands = Append(@, cmd),
               !.queries = IF is_query(cmd) THEN Append(@, cmd) ELSE @]

\* the body of the inner loop, cmd already stripped
cmd_step(st, cmd, sep, strict_query) ==
    IF cmd = <<>> THEN st
    ELSE place_cmd(record_cmd(st, cmd), cmd, sep, strict_query)

RECURSIVE cmd_loop(_, _, _, _)
\* for cmd in msg.split(sep)
cmd_loop(st, cmds, sep, strict_query) ==
    IF cmds = <<>> THEN st
    ELSE cmd_loop(cmd_step(st, strip(Head(cmds)), sep, strict_query),
                  Tail(cmds), sep, strict_query)

RECURSIVE msg_loop(_, _, _, _)
\* for msg in msgs
msg_loop(st, msgs, sep, strict_query) ==
    IF msgs = <<>> THEN st
    ELSE msg_loop(flush(cmd_loop(st, split(Head(msgs), sep), sep, strict_query), sep),
                  Tail(msgs), sep, strict_query)

\* the return statement
sanitize_return(st, eol) ==
    [commands |-> st.commands, queries |-> st.queries,
     message |-> join(<<eol>>, st.result) \o <<eol>>]

sanitize_msgs(msgs, eol, sep, strict_query) ==
    sanitize_return(msg_loop(SanitizeLocals, split(join(<<eol>>, msgs), eol),
                             sep, strict_query),
                    eol)

(***************************************************************************)
(* split_line.  sep is one character.                                      *)
(***************************************************************************)
\* s.find(c) + 1: the place of the first c of s, 0 when s has none
index_of(s, c) ==
    IF \E i \in 1..Len(s) : s[i] = c
    THEN CHOOSE i \in 1..Len(s) : s[i] = c /\ \A j \in 1..(i - 1) : s[j] # c
    ELSE 0

\* s.partition(c), the first c of s being at place i (0: s has none)
partition_at(s, i) ==
    IF i = 0 THEN [head |-> s, tail |-> <<>>]
    ELSE [head |-> SubSeq(s, 1, i - 1), tail |-> SubSeq(s, i + 1, Len(s))]

\* s.partition(c): what is before the first c, and what is after it
partition(s, c) == partition_at(s, index_of(s, c))

\* the namedtuple Request
Request(name, args, query) == [name |-> name, args |-> args, query |-> query]

\* the request made of parts, what req_str.partition(' ') gave
request_of(parts, query) == Request(strip(parts.head), strip(parts.tail), query)

\* the body of the loop of split_line
req_step(requests, req_str) ==
    IF req_str = <<>> THEN requests
    ELSE Append(requests,
                request_of(partition(remove_chars(req_str, {"?"}), " "), is_query(req_str)))

RECURSIVE req_loop(_, _)
\* for req_str in line.split(sep)
req_loop(requests, req_strs) ==
    IF req_strs = <<>> THEN requests
    ELSE req_loop(req_step(requests, Head(req_strs)), Tail(req_strs))

\* line.strip().strip(';')
strip_line(line) == rstrip(lstrip(strip(line), {";"}), {";"})

split_line(line, sep) == req_loop(<<>>, split(strip_line(line), sep))

(***************************************************************************)
(* The registry as a state machine: one Commands object, the calls made    *)
(* on it one after the other.                                              *)
(***************************************************************************)
\* longest list of pairs given to update, and to the constructor of a
\* registry that is merged in
MaxPairs == 1

\* command expressions inserted:  A  Ab  :A  [  ]
CmdExprs == {<<"A">>, <<"A", "b">>, <<":", "A">>, <<"[">>, <<"]">>}

\* payloads stored
Payloads == {None, "cmd"}

\* defaults given to get
Defaults == {None, "dflt"}

\* texts looked up:  A  a  Ab  :A  :a  b  and the empty text
Texts == {<<"A">>, <<"a">>, <<"A", "b">>, <<":", "A">>, <<":", "a">>, <<"b">>, <<>>}

PairLists == SeqsUpTo(CmdExprs \X Payloads, MaxPairs)

\* Commands(pairs), when the constructor does not raise
Constructed == {r.self : r \in {q \in {update_pairs(EmptyCommands, pairs) : pairs \in PairLists} :
                                    q.exc = "none"}}

\* registries given to update: constructed, then possibly used for a lookup
OtherCommands == Constructed \cup
                 {get_command_expression(c, t).self : c \in Constructed, t \in Texts}

VARIABLES
    self,   \* the Commands object
    ret,    \* the last call: its name, what it raised, what it returned
    gone,   \* history: the texts that a removal made unresolvable, while no
            \* insertion or merge has followed
    call,   \* the arguments of a call of a function of the module
    result  \* what that call returned, Pending before it has

vars == <<self, ret, gone, call, result>>

Pending == [pending |-> TRUE]

\* no call of a function of the module is under way
NoCall == call = None /\ result = None

\* the registry is not in use
NoRegistry ==
    /\ self = EmptyCommands
    /\ ret = [op |-> "__init__", exc |-> "none", val |-> None]
    /\ gone = {}

Returned(op, r) == [op |-> op, exc |-> r.exc, val |-> r.val]

Init == NoRegistry /\ NoCall

\* self[cmd_expr] = command
SetItem(cmd_expr, command) ==
    LET r == setitem(self, cmd_expr, command) IN
    /\ self' = r.self
    /\ ret' = Returned("__setitem__", r)
    /\ gone' = {}
    /\ UNCHANGED <<call, result>>

\* self.get_command_expression(cmd_name)
GetCommandExpression(cmd_name) ==
    LET r == get_command_expression(self, cmd_name) IN
    /\ self' = r.self
    /\ ret' = Returned("get_command_expression", r)
    /\ UNCHANGED <<gone, call, result>>

\* self.get_command(cmd_name)
GetCommand(cmd_name) ==
    LET r == get_command(self, cmd_name) IN
    /\ self' = r.self
    /\ ret' = Returned("get_command", r)
    /\ UNCHANGED <<gone, call, result>>

\* self[cmd_name]
GetItem(cmd_name) ==
    LET r == getitem(self, cmd_name) IN
    /\ self' = r.self
    /\ ret' = Returned("__getitem__", r)
    /\ UNCHANGED <<gone, call, result>>

\* self.get(cmd_name, default)
Get(cmd_name, default) ==
    LET r == get(self, cmd_name, default) IN
    /\ self' = r.self
    /\ ret' = Returned("get", r)
    /\ UNCHANGED <<gone, call, result>>

\* cmd_name in self
Contains(cmd_name) ==
    LET r == contains(self, cmd_name) IN
    /\ self' = r.self
    /\ ret' = Returned("__contains__", r)
    /\ UNCHANGED <<gone, call, result>>

\* r, what a lookup gave, is the expression cmd_expr
ResolvedTo(r, cmd_expr) == r.exc = "none" /\ r.val = cmd_expr

\* the texts that resolve to cmd_expr and that no other registered pattern matches
OnlyVia(cmd_expr) ==
    {s \in Texts :
        /\ ResolvedTo(get_command_expression(self, s), cmd_expr)
        /\ \A i \in 1..Len(self.command_expressions) :
              self.command_expressions[i].key # cmd_expr
                  => ~re_match(self.command_expressions[i].val.re, s)}

\* del self[cmd_expr]
DelItem(cmd_expr) ==
    LET r == delitem(self, cmd_expr) IN
    /\ self' = r.self
    /\ ret' = Returned("__delitem__", r)
    /\ gone' = IF r.exc = "none" THEN gone \cup OnlyVia(cmd_expr) ELSE gone
    /\ UNCHANGED <<call, result>>

\* self.clear()
Clear ==
    /\ self' = clear(self).self
    /\ ret' = Returned("clear", clear(self))
    /\ UNCHANGED <<gone, call, result>>

\* self.update(commands), commands a Commands object
UpdateCommands(commands) ==
    LET r == update_commands(self, commands) IN
    /\ self' = r.self
    /\ ret' = Returned("update", r)
    /\ gone' = {}
    /\ UNCHANGED <<call, result>>

\* self.update(commands), commands a dict or a sequence of pairs
UpdatePairs(commands) ==
    LET r == update_pairs(self, commands) IN
    /\ self' = r.self
    /\ ret' = Returned("update", r)
    /\ gone' = {}
    /\ UNCHANGED <<call, result>>

Next ==
    \/ \E cmd_expr \in CmdExprs, command \in Payloads : SetItem(cmd_expr, command)
    \/ \E cmd_name \in Texts : GetCommandExpression(cmd_name)
    \/ \E cmd_name \in Texts : GetCommand(cmd_name)
    \/ \E cmd_name \in Texts : GetItem(cmd_name)
    \/ \E cmd_name \in Texts, default \in Defaults : Get(cmd_name, default)
    \/ \E cmd_name \in Texts : Contains(cmd_name)
    \/ \E cmd_expr \in CmdExprs : DelItem(cmd_expr)
    \/ Clear
    \/ \E commands \in OtherCommands : UpdateCommands(commands)
    \/ \E commands \in PairLists : UpdatePairs(commands)

Spec == Init /\ [][Next]_vars

(***************************************************************************)
(* The analyzer: one command expression, analysed once.                    *)
(***************************************************************************)
\* longest command expression analysed
MaxExprLen == 5

ExprChars == {"A", "b", ":", "[", "]", "*"}

InitExpr ==
    /\ NoRegistry
    /\ call \in [cmd_expr : SeqsUpTo(ExprChars, MaxExprLen)]
    /\ result = Pending

\* what the pattern compiled from cmd_expr says of a text
matches(compiled, text) == compiled.exc = "none" /\ re_match(compiled.val, text)

\* min_max_cmd(cmd_expr), cmd_expr_to_reg_expr(cmd_expr) and the two matches
Analysis(mm, compiled) ==
    [min_command |-> mm.min, max_command |-> mm.max,
     exc |-> compiled.exc, pattern |-> compiled.val,
     match_min |-> matches(compiled, mm.min), match_max |-> matches(compiled, mm.max)]

Analyse ==
    /\ result = Pending
    /\ result' = Analysis(min_max_cmd(call.cmd_expr), cmd_expr_to_reg_expr(call.cmd_expr))
    /\ UNCHANGED <<self, ret, gone, call>>

SpecExpr == InitExpr /\ [][Analyse]_vars

(***************************************************************************)
(* sanitize_msgs: one tuple of messages, sanitized once.                   *)
(***************************************************************************)
\* most characters of the messages of one call, joined by eol
MaxJoined == 5

MsgChars == {"a", "?", " ", ";", "\n"}

RECURSIVE MsgTuples(_)
\* the tuples of one message or more whose join has at most n characters
MsgTuples(n) ==
    {<<m>> : m \in SeqsUpTo(MsgChars, n)} \cup
    UNION {{<<m>> \o rest : rest \in MsgTuples(n - Len(m) - 1)} :
               m \in SeqsUpTo(MsgChars, n - 1)}

InitSanitize ==
    /\ NoRegistry
    /\ call \in [msgs : {<<>>} \cup MsgTuples(MaxJoined), eol : {"\n"}, sep : {";"},
                 strict_query : BOOLEAN]
    /\ result = Pending

Sanitize ==
    /\ result = Pending
    /\ result' = sanitize_msgs(call.msgs, call.eol, call.sep, call.strict_query)
    /\ UNCHANGED <<self, ret, gone, call>>

SpecSanitize == InitSanitize /\ [][Sanitize]_vars

(***************************************************************************)
(* split_line: one line, split once.                                       *)
(***************************************************************************)
\* most characters of a line
MaxLine == 5

LineChars == {"a", "?", " ", "\t", ";", ","}

\* separators given: the default and another one
Seps == {";", ","}

InitSplit ==
    /\ NoRegistry
    /\ call \in [line : SeqsUpTo(LineChars, MaxLine), sep : Seps]
    /\ result = Pending

SplitLine ==
    /\ result = Pending
    /\ result' = [requests |-> split_line(call.line, call.sep)]
    /\ UNCHANGED <<self, ret, gone, call>>

SpecSplit == InitSplit /\ [][SplitLine]_vars

(***************************************************************************)
(* Threads that read one shared registry.  A thread makes one call of      *)
(* get_command_expression, get or __contains__; each access to one of the  *)
(* two dicts is a step of its own, and the steps of the threads interleave.*)
(* call[t] is the call of thread t, result[t] its locals, and ret keeps    *)
(* the registry as the threads found it.                                   *)
(***************************************************************************)
\* number of threads
MaxThreads == 2

Threads == 1..MaxThreads

\* texts the threads look up:  a  :a  b
ReadTexts == {<<"a">>, <<":", "a">>, <<"b">>}

\* the calls a thread may make
ReadCalls ==
    [op : {"get_command_expression", "__contains__"}, cmd_name : ReadTexts, default : {None}]
        \cup [op : {"get"}, cmd_name : ReadTexts, default : Defaults]

\* registries made of two insertions
Inserted ==
    {r.self : r \in {q \in {update_pairs(EmptyCommands, pairs) :
                                pairs \in SeqsUpTo({<<<<"A">>, None>>, <<<<"A", "b">>, "cmd">>}, 2)} :
                         q.exc = "none"}}

\* registries the threads share: made of insertions, then possibly of a
\* removal, which empties part of the cache
SharedRegistries ==
    Inserted \cup {delitem(c, cmd_expr).self : c \in Inserted, cmd_expr \in {<<"A", "b">>}}

\* the locals of a thread that is not in a call
Idle == [pc |-> "idle", i |-> 0, cmd_expr |-> <<>>, exc |-> "none", val |-> None]

InitThreads ==
    /\ self \in SharedRegistries
    /\ ret = [op |-> "__init__", exc |-> "none", val |-> self]
    /\ gone = {}
    /\ call = [t \in Threads |-> None]
    /\ result = [t \in Threads |-> Idle]

\* thread t makes the call c
Begin(t, c) ==
    /\ result[t].pc = "idle"
    /\ call' = [call EXCEPT ![t] = c]
    /\ result' = [result EXCEPT ![t].pc = "probe"]
    /\ UNCHANGED <<self, ret, gone>>

\* return self._command_cache[cmd_name_u], or except KeyError
Probe(t) ==
    /\ result[t].pc = "probe"
    /\ result' = IF upper(call[t].cmd_name) \in DOMAIN self._command_cache
                 THEN [result EXCEPT ![t].pc = "return",
                                     ![t].cmd_expr = self._command_cache[upper(call[t].cmd_name)]]
                 ELSE [result EXCEPT ![t].pc = "scan", ![t].i = 1]
    /\ UNCHANGED <<self, ret, gone, call>>

\* one turn of the for loop: the next item of command_expressions, its
\* pattern matched against cmd_name; raise KeyError(cmd_name) after the last
ScanItem(t) ==
    /\ result[t].pc = "scan"
    /\ result' =
          IF result[t].i > Len(self.command_expressions)
          THEN [result EXCEPT ![t].pc = "return", ![t].exc = "KeyError",
                              ![t].cmd_expr = call[t].cmd_name]
          ELSE IF re_match(self.command_expressions[result[t].i].val.re, call[t].cmd_name)
          THEN [result EXCEPT ![t].pc = "write",
                              ![t].cmd_expr = self.command_expressions[result[t].i].key]
          ELSE [result EXCEPT ![t].i = @ + 1]
    /\ UNCHANGED <<self, ret, gone, call>>

\* a variant of cache_write that caches the text looked up
cache_write_text(cache, cmd_name, cmd_expr) == (upper(cmd_name) :> cmd_name) @@ cache

\* self._command_cache[cmd_name.upper()] = cmd_expr
cache_write(cache, cmd_name, cmd_expr) == (upper(cmd_name) :> cmd_expr) @@ cache

Write(t) ==
    /\ result[t].pc = "write"
    /\ self' = [self EXCEPT !._command_cache =
                    cache_write(@, call[t].cmd_name, result[t].cmd_expr)]
    /\ result' = [result EXCEPT ![t].pc = "return"]
    /\ UNCHANGED <<ret, gone, call>>

\* what the call c gives once get_command_expression gave r: get_command
\* reads the entry, __getitem__ its value, get catches KeyError, and
\* __contains__ compares with None
finish(c, r) ==
    IF c.op = "get_command_expression" THEN r
    ELSE IF c.op = "get" THEN or_default(value_of(command_of(r)), c.default)
    ELSE is_not_none(or_default(value_of(command_of(r)), None))

\* what get_command_expression gave thread t
looked_up(t) == Result(self, result[t].exc, result[t].cmd_expr)

\* the rest of the call of thread t, get_command_expression having returned
\* or raised
Return(t) ==
    /\ result[t].pc = "return"
    /\ result' = [result EXCEPT ![t].pc = "done",
                                ![t].exc = finish(call[t], looked_up(t)).exc,
                                ![t].val = finish(call[t], looked_up(t)).val]
    /\ UNCHANGED <<self, ret, gone, call>>

NextThreads ==
    \/ \E t \in Threads, c \in ReadCalls : Begin(t, c)
    \/ \E t \in Threads : Probe(t)
    \/ \E t \in Threads : ScanItem(t)
    \/ \E t \in Threads : Write(t)
    \/ \E t \in Threads : Return(t)

SpecThreads == InitThreads /\ [][NextThreads]_vars

(***************************************************************************)
(* update: one registry, merged once with a list of pairs or with another  *)
(* registry.  self stays the registry before the call; result is what the  *)
(* call gave, with the registry after it.                                  *)
(***************************************************************************)
\* longest list of pairs merged
MaxMerge == 2

MergePairLists == SeqsUpTo(CmdExprs \X Payloads, MaxMerge)

\* registries merged into: what update with pairs made of an empty one
MergeTargets == {update_pairs(EmptyCommands, pairs).self : pairs \in MergePairLists}

InitMerge ==
    /\ self \in MergeTargets
    /\ ret = [op |-> "__init__", exc |-> "none", val |-> None]
    /\ gone = {}
    /\ call \in [kind : {"pairs"}, commands : MergePairLists]
                    \cup [kind : {"Commands"}, commands : OtherCommands]
    /\ result = Pending

\* self.update(commands), commands a sequence of pairs
MergePairs ==
    /\ result = Pending /\ call.kind = "pairs"
    /\ result' = update_pairs(self, call.commands)
    /\ UNCHANGED <<self, ret, gone, call>>

\* self.update(commands), commands a Commands object
MergeCommands ==
    /\ result = Pending /\ call.kind = "Commands"
    /\ result' = update_commands(self, call.commands)
    /\ UNCHANGED <<self, ret, gone, call>>

NextMerge == MergePairs \/ MergeCommands

SpecMerge == InitMerge /\ [][NextMerge]_vars

(***************************************************************************)
(* Properties of the registry, checked under Spec.                         *)
(***************************************************************************)
RECURSIVE nested(_, _, _)
\* the brackets of cmd_expr[i..] close what is open and no more
nested(cmd_expr, i, open) ==
    IF i > Len(cmd_expr) THEN open = 0
    ELSE IF cmd_expr[i] = "[" THEN nested(cmd_expr, i + 1, open + 1)
    ELSE IF cmd_expr[i] = "]" THEN open > 0 /\ nested(cmd_expr, i + 1, open - 1)
    ELSE nested(cmd_expr, i + 1, open)

\* cmd_expr has balanced brackets
Balanced(cmd_expr) == nested(cmd_expr, 1, 0)

\* some registered pattern matches text
Matched(reg, text) ==
    \E i \in 1..Len(reg.command_expressions) :
        re_match(reg.command_expressions[i].val.re, text)

\* C1: every key of the abbreviation cache maps to an expression that is a
\* key of command_expressions, in every state that insertions, lookups,
\* removals, merges and clear can reach.
C1_CacheConsistent ==
    \A k \in DOMAIN self._command_cache :
        self._command_cache[k] \in dict_keys(self.command_expressions)

\* C1: a removal has left other expressions registered and keys in the cache
C1_Witness ==
    /\ ret.op = "__delitem__" /\ ret.exc = "none"
    /\ self.command_expressions # <<>>
    /\ DOMAIN self._command_cache # {}

\* the expression a lookup gave, None when it raised
Found(r) == IF r.exc = "none" THEN r.val ELSE None

\* C2: a lookup gives the first expression, in the insertion order of
\* command_expressions, whose pattern matches the text, also when the answer
\* comes from the cache; it fails when no pattern matches.
C2_FirstMatchWins ==
    \A s \in Texts :
        Found(get_command_expression(self, s)) =
            Found(cache_miss(self, s, first_match(self.command_expressions, s, 1)))

\* r, what self[text] gave, is the payload command
LooksUpAs(r, command) == r.exc = "none" /\ r.val = command

\* the round trip of C3 as claimed, r being what self[cmd_expr] = command gave
RoundTripAlways(r, cmd_expr, command) ==
    /\ ResolvedTo(get_command_expression(r.self, r.val.min_command), cmd_expr)
    /\ ResolvedTo(get_command_expression(r.self, r.val.max_command), cmd_expr)
    /\ \A s \in Texts :
          re_match(r.val.re, s) => LooksUpAs(getitem(r.self, s), command)

\* C3, as claimed: after self[cmd_expr] = command has returned, for cmd_expr
\* with balanced brackets, the cache maps min_command and max_command to
\* cmd_expr and every text the pattern accepts looks up as command.
C3_RoundTripAlways ==
    \A cmd_expr \in CmdExprs, command \in Payloads :
        (Balanced(cmd_expr) /\ setitem(self, cmd_expr, command).exc = "none") =>
            RoundTripAlways(setitem(self, cmd_expr, command), cmd_expr, command)

\* before the call, text resolved to no expression other than cmd_expr
NotElsewhere(r, cmd_expr) == r.exc = "KeyError" \/ r.val = cmd_expr

\* the round trip of C3 amended, r being what self[cmd_expr] = command gave
RoundTrip(r, cmd_expr, command) ==
    /\ \A m \in {r.val.min_command, r.val.max_command} :
          /\ m \in DOMAIN r.self._command_cache
          /\ NotElsewhere(get_command_expression(self, m), cmd_expr)
                 => r.self._command_cache[m] = cmd_expr
    /\ \A s \in Texts :
          re_match(r.val.re, s) =>
              /\ getitem(r.self, s).exc = "none"
              /\ NotElsewhere(get_command_expression(self, s), cmd_expr)
                     => /\ ResolvedTo(get_command_expression(r.self, s), cmd_expr)
                        /\ LooksUpAs(getitem(r.self, s), command)

\* C3, amended: after self[cmd_expr] = command has returned, min_command and
\* max_command are keys of the cache and every text the pattern accepts
\* resolves; the key maps to cmd_expr, and the text looks up as command,
\* whenever it did not resolve to another expression before the call.
C3_RoundTrip ==
    \A cmd_expr \in CmdExprs, command \in Payloads :
        setitem(self, cmd_expr, command).exc = "none" =>
            RoundTrip(setitem(self, cmd_expr, command), cmd_expr, command)

\* C3: Ab has just been inserted; A and AB are cached for it and the texts
\* Ab and a look up as its payload
C3_Witness ==
    /\ ret.op = "__setitem__" /\ ret.exc = "none"
    /\ ret.val.min_command = <<"A">> /\ ret.val.max_command = <<"A", "B">>
    /\ <<"A">> \in DOMAIN self._command_cache
    /\ self._command_cache[<<"A">>] = <<"A", "b">>
    /\ <<"A", "B">> \in DOMAIN self._command_cache
    /\ self._command_cache[<<"A", "B">>] = <<"A", "b">>
    /\ LooksUpAs(getitem(self, <<"A", "b">>), ret.val.value)
    /\ LooksUpAs(getitem(self, <<"a">>), ret.val.value)

\* C4: a text that resolved to an expression when it was removed, and that no
\* other registered pattern matched, fails to resolve in every later state,
\* until an insertion or a merge.
C4_RemovedStaysUnresolved ==
    \A s \in gone : /\ get_command_expression(self, s).exc = "KeyError"
                    /\ get_command(self, s).exc = "KeyError"
                    /\ getitem(self, s).exc = "KeyError"

\* C4: a lookup of such a text has failed, other expressions being registered
C4_Witness ==
    /\ gone # {}
    /\ ret.op = "__getitem__" /\ ret.exc = "KeyError" /\ ret.val \in gone
    /\ self.command_expressions # <<>>
    /\ DOMAIN self._command_cache # {}

\* r, what a lookup of text gave, is KeyError(text) and the registry is as it was
RaisedFor(r, text) == r.exc = "KeyError" /\ r.val = text /\ r.self = self

\* C5: when no registered pattern matches the text, get_command_expression,
\* get_command and __getitem__ raise KeyError with the text as given, get
\* returns the default, and the registry is as it was.
C5_FailedLookup ==
    \A s \in Texts :
        ~Matched(self, s) =>
            /\ RaisedFor(get_command_expression(self, s), s)
            /\ RaisedFor(get_command(self, s), s)
            /\ RaisedFor(getitem(self, s), s)
            /\ \A default \in Defaults :
                  get(self, s, default) = Result(self, "none", default)

\* C5: the lower-case text b has failed to resolve in a registry that holds
\* expressions and cached keys
C5_Witness ==
    /\ ret.op = "get_command" /\ ret.exc = "KeyError" /\ ret.val = <<"b">>
    /\ ~Matched(self, <<"b">>)
    /\ self.command_expressions # <<>>
    /\ DOMAIN self._command_cache # {}

\* r1 and r2, what two lookups gave, are the same entry or the same failure
SameOutcome(r1, r2) == r1.exc = r2.exc /\ r1.val = r2.val

\* the registry after a second self[cmd_expr] = command has the size and the
\* lookups of the registry once, which the first one left
SecondChangesNothing(once, cmd_expr, command) ==
    /\ len(setitem(once, cmd_expr, command).self) = len(once)
    /\ \A s \in Texts :
          SameOutcome(get_command(setitem(once, cmd_expr, command).self, s),
                      get_command(once, s))

\* C6: in every state, inserting an expression a second time with the same
\* payload leaves the size of the registry and every lookup as the first
\* insertion left them.
C6_Idempotent ==
    \A cmd_expr \in CmdExprs, command \in Payloads :
        SecondChangesNothing(setitem(self, cmd_expr, command).self, cmd_expr, command)

\* C6: Ab has just been inserted beside another expression, and inserting it
\* again returns the same entry and leaves the registry as it is
C6_Witness ==
    /\ ret.op = "__setitem__" /\ ret.exc = "none"
    /\ len(self) = 2
    /\ setitem(self, <<"A", "b">>, ret.val.value) = Result(self, "none", ret.val)

\* C7: self[cmd_expr] = command with unbalanced brackets raises an error and
\* leaves command_expressions and the cache as they were.
C7_InvalidExpression ==
    \A cmd_expr \in CmdExprs, command \in Payloads :
        ~Balanced(cmd_expr) =>
            /\ setitem(self, cmd_expr, command).exc = "re.error"
            /\ setitem(self, cmd_expr, command).self = self

\* C7: an insertion has raised re.error in a registry that holds expressions
C7_Witness ==
    /\ ret.op = "__setitem__" /\ ret.exc = "re.error"
    /\ self.command_expressions # <<>>
    /\ DOMAIN self._command_cache # {}

\* the cache left by a removal keeps every key of cache that did not point
\* at cmd_expr, with its value
KeepsOthers(cache, left, cmd_expr) ==
    \A k \in DOMAIN cache :
        cache[k] # cmd_expr => k \in DOMAIN left /\ left[k] = cache[k]

\* C13: del self[cmd_expr] removes from the cache only keys that pointed at
\* cmd_expr: every key that points at another, still registered expression
\* stays in the cache with its value, also when the pattern of cmd_expr
\* matches it.
C13_RemoveFrame ==
    \A cmd_expr \in dict_keys(self.command_expressions) :
        KeepsOthers(self._command_cache, delitem(self, cmd_expr).self._command_cache,
                    cmd_expr)

\* C16: whenever self[cmd_expr] = command raises, whatever it raises,
\* command_expressions and the cache are as they were before the call.
C16_AtomicInsert ==
    \A cmd_expr \in CmdExprs, command \in Payloads :
        setitem(self, cmd_expr, command).exc # "none" =>
            setitem(self, cmd_expr, command).self = self

\* C17: in every state and for every text, text in self is true exactly
\* when the lookup of text succeeds, whatever payload the entry holds, None
\* included.
C17_ContainsAgrees ==
    \A s \in Texts :
        /\ contains(self, s).exc = "none"
        /\ contains(self, s).val <=> get_command_expression(self, s).exc = "none"

(***************************************************************************)
(* Properties of the expression analysis, checked under SpecExpr.          *)
(***************************************************************************)
\* C8: for every cmd_expr with balanced brackets, the pattern compiled from
\* cmd_expr matches the minimal form and the maximal form min_max_cmd gives.
C8_PatternMatchesMinMax ==
    (result # Pending /\ Balanced(call.cmd_expr)) =>
        result.match_min /\ result.match_max

(***************************************************************************)
(* Properties of sanitize_msgs, checked under SpecSanitize.  What is       *)
(* expected of a call is read off its arguments by one pass over the       *)
(* characters of the messages, and the canonical message is read back from *)
(* its characters.                                                         *)
(***************************************************************************)
\* text without the white space at its two ends
Trimmed(text) ==
    IF \A i \in 1..Len(text) : text[i] \in Whitespace THEN <<>>
    ELSE SubSeq(text,
                CHOOSE a \in 1..Len(text) :
                    text[a] \notin Whitespace /\ \A i \in 1..(a - 1) : text[i] \in Whitespace,
                CHOOSE b \in 1..Len(text) :
                    text[b] \notin Whitespace /\ \A i \in (b + 1)..Len(text) : text[i] \in Whitespace)

RECURSIVE Scan(_, _, _, _, _, _)
\* the pieces of s from character i on, each with the number of its line,
\* piece being the characters read since the last eol or sep
Scan(s, eol, sep, i, line, piece) ==
    IF i > Len(s) THEN <<[text |-> Trimmed(piece), line |-> line]>>
    ELSE IF s[i] = eol
    THEN <<[text |-> Trimmed(piece), line |-> line]>> \o Scan(s, eol, sep, i + 1, line + 1, <<>>)
    ELSE IF s[i] = sep
    THEN <<[text |-> Trimmed(piece), line |-> line]>> \o Scan(s, eol, sep, i + 1, line, <<>>)
    ELSE Scan(s, eol, sep, i + 1, line, Append(piece, s[i]))

RECURSIVE MsgPieces(_, _, _, _)
\* the pieces of the messages, the lines numbered from line on: a message
\* starts a line
MsgPieces(msgs, eol, sep, line) ==
    IF msgs = <<>> THEN <<>>
    ELSE Scan(Head(msgs), eol, sep, 1, line, <<>>) \o
         MsgPieces(Tail(msgs), eol, sep,
                   line + 1 + Cardinality({i \in 1..Len(Head(msgs)) : Head(msgs)[i] = eol}))

NonEmpty(piece) == piece.text # <<>>

\* the non-empty trimmed pieces of a call's messages, in source order
InputPieces(c) == SelectSeq(MsgPieces(c.msgs, c.eol, c.sep, 1), NonEmpty)

\* the lines of a message, the characters after its last eol left out
MessageLines(message, eol) ==
    SubSeq(split(message, eol), 1, Len(split(message, eol)) - 1)

RECURSIVE LinePieces(_, _, _)
\* the pieces of the lines from line i on, each with the number of its line
LinePieces(lines, sep, i) ==
    IF i > Len(lines) THEN <<>>
    ELSE [k \in 1..Len(split(lines[i], sep)) |->
              [text |-> split(lines[i], sep)[k], line |-> i]]
         \o LinePieces(lines, sep, i + 1)

\* the pieces of a canonical message, left to right
OutputPieces(message, c) == LinePieces(MessageLines(message, c.eol), c.sep, 1)

\* the canonical message of C9: inp the pieces of the input, out the pieces
\* of the message
StrictCanonical(message, c, inp, out, commands) ==
    \* the message ends with eol and none of its lines is empty
    /\ message # <<>> /\ message[Len(message)] = c.eol
    /\ \A i \in 1..Len(MessageLines(message, c.eol)) :
          MessageLines(message, c.eol)[i] # <<>>
    \* its pieces, left to right, are all_commands, and the pieces of the input
    /\ Len(out) = Len(commands) /\ Len(out) = Len(inp)
    /\ \A k \in 1..Len(out) : out[k].text = commands[k] /\ out[k].text = inp[k].text
    \* a query is a line by itself
    /\ \A k \in 1..Len(out), j \in 1..Len(out) :
          (is_query(out[k].text) /\ j # k) => out[j].line # out[k].line
    \* neighbours that are not queries share a line exactly when they come
    \* from one line of the input
    /\ \A k \in 1..(Len(out) - 1) :
          (~is_query(out[k].text) /\ ~is_query(out[k + 1].text)) =>
              (out[k].line = out[k + 1].line <=> inp[k].line = inp[k + 1].line)

\* C9, as claimed: with strict_query, in the canonical message every query
\* is a line by itself, the pieces that are not queries and lie between two
\* queries or line boundaries of one input line are one line joined by sep,
\* no line is empty, and the pieces of the message read left to right are
\* all_commands.
C9_StrictCanonicalAlways ==
    (result # Pending /\ call.strict_query) =>
        StrictCanonical(result.message, call, InputPieces(call),
                        OutputPieces(result.message, call), result.commands)

\* C9, amended: the same when the input has a non-empty piece; when it has
\* none the canonical message is eol alone, one empty line.
C9_StrictCanonical ==
    (result # Pending /\ call.strict_query) =>
        IF InputPieces(call) = <<>>
        THEN result.message = <<call.eol>>
        ELSE StrictCanonical(result.message, call, InputPieces(call),
                             OutputPieces(result.message, call), result.commands)

\* C9: a query between two commands of one input line has been put on a line
\* of its own, and the commands before it on one line
C9_Witness ==
    /\ result # Pending /\ call.strict_query
    /\ call.msgs = <<<<"a", ";", "a", ";", "?">>>>
    /\ result.message = <<"a", ";", "a", "\n", "?", "\n">>

\* the texts of pieces
Texts_of(pieces) == [k \in 1..Len(pieces) |-> pieces[k].text]

GivesItself(msgs, eol, sep, strict_query) ==
    sanitize_msgs(<<sanitize_msgs(msgs, eol, sep, strict_query).message>>,
                  eol, sep, strict_query)
        = sanitize_msgs(msgs, eol, sep, strict_query)

\* other pairs of eol and sep, neither white space nor "?"
OtherSeparators == {<<";", "a">>, <<"a", ";">>}

\* C18: for both values of strict_query, sanitize_msgs called again on the
\* canonical message it returned, with the same eol, sep and strict_query,
\* returns the same commands, the same queries and the same message; so it
\* does with other separators than the default ones.
C18_FixedPoint ==
    result # Pending =>
        /\ sanitize_msgs(<<result.message>>, call.eol, call.sep, call.strict_query) = result
        /\ \A p \in OtherSeparators : GivesItself(call.msgs, p[1], p[2], call.strict_query)

\* C18: two messages with white space, an empty piece and a query have been
\* made canonical, and the canonical message, which is not the input, gives
\* itself
C18_Witness ==
    /\ result # Pending /\ ~call.strict_query
    /\ call.msgs = << <<" ", "a", ";">>, <<"?">> >>
    /\ result.message = <<"a", "\n", "?", "\n">>
    /\ sanitize_msgs(<<result.message>>, call.eol, call.sep, call.strict_query).message
           = result.message

(***************************************************************************)
(* Properties of split_line, checked under SpecSplit.                      *)
(***************************************************************************)
NotEmpty(piece) == piece # <<>>

NotMark(c) == c # "?"

\* the pieces of a line between separators that are not empty, in source order
LineParts(line, sep) == SelectSeq(split(Trimmed(line), sep), NotEmpty)

\* text cut at its first run of white space: the name before it, the
\* arguments after it
CutAtSpace(text) ==
    IF \A i \in 1..Len(text) : text[i] \notin Whitespace
    THEN [name |-> text, args |-> <<>>]
    ELSE [name |-> SubSeq(text, 1,
                          (CHOOSE i \in 1..Len(text) :
                               text[i] \in Whitespace /\
                               \A j \in 1..(i - 1) : text[j] \notin Whitespace) - 1),
          args |-> Trimmed(SubSeq(text,
                          CHOOSE i \in 1..Len(text) :
                               text[i] \in Whitespace /\
                               \A j \in 1..(i - 1) : text[j] \notin Whitespace,
                          Len(text)))]

\* token is what C11 says of piece: the first run of white space is looked
\* for in the piece as it is, or in the piece trimmed
TokenOf(token, piece) ==
    /\ token.query = is_query(piece)
    /\ \/ /\ token.name = CutAtSpace(SelectSeq(piece, NotMark)).name
          /\ token.args = CutAtSpace(SelectSeq(piece, NotMark)).args
       \/ /\ token.name = CutAtSpace(Trimmed(SelectSeq(piece, NotMark))).name
          /\ token.args = CutAtSpace(Trimmed(SelectSeq(piece, NotMark))).args

\* C11: with the default separator, split_line gives one token for each
\* piece that is not empty, in source order; its query flag says whether the
\* piece contains "?", and with the "?" removed its name is the text before
\* the first run of white space and its args the text after it, both
\* trimmed, also when the white space is a tab.
C11_TokenPerPiece ==
    (result # Pending /\ call.sep = ";") =>
        /\ Len(result.requests) = Len(LineParts(call.line, call.sep))
        /\ \A k \in 1..Len(result.requests) :
              TokenOf(result.requests[k], LineParts(call.line, call.sep)[k])

\* text without one sep at its start and one at its end
WithoutSep(text, sep) ==
    SubSeq(text,
           IF text # <<>> /\ text[1] = sep THEN 2 ELSE 1,
           IF Len(text) > 1 /\ text[Len(text)] = sep THEN Len(text) - 1 ELSE Len(text))

\* C15: for every separator given, split_line gives the tokens of the line
\* without the white space at its ends and without an instance of that
\* separator at its start and at its end: with a separator other than ";" a
\* ";" at an end of the line stays in the first or last token, and the
\* separator given makes no token at an end.
C15_StripsGivenSeparator ==
    result # Pending =>
        result.requests =
            req_loop(<<>>, split(WithoutSep(Trimmed(call.line), call.sep), call.sep))

\* C19: every token split_line gives has a name that is not empty: a piece
\* that is empty, or made of white space and "?" only, gives no token.
C19_NoEmptyName ==
    result # Pending =>
        \A k \in 1..Len(result.requests) : result.requests[k].name # <<>>

(***************************************************************************)
(* Properties of the threads that read one registry, checked under         *)
(* SpecThreads.                                                            *)
(***************************************************************************)
\* what the call c gives when it runs alone on the registry reg
alone(c, reg) ==
    IF c.op = "get_command_expression" THEN get_command_expression(reg, c.cmd_name)
    ELSE IF c.op = "get" THEN get(reg, c.cmd_name, c.default)
    ELSE contains(reg, c.cmd_name)

\* every key of the cache maps to a registered expression whose pattern
\* matches the key
CacheMatches(reg) ==
    \A k \in DOMAIN reg._command_cache :
        /\ reg._command_cache[k] \in dict_keys(reg.command_expressions)
        /\ re_match(dict_get(reg.command_expressions, reg._command_cache[k]).re, k)

\* C12: while threads read one registry with their steps interleaved, every
\* call that has ended gave what it gives when run alone on the registry as
\* the threads found it, and in every state every key of the cache maps to a
\* registered expression whose pattern matches the key.
C12_ConcurrentReads ==
    /\ CacheMatches(self)
    /\ \A t \in Threads :
          result[t].pc = "done" =>
              /\ result[t].exc = alone(call[t], ret.val).exc
              /\ result[t].val = alone(call[t], ret.val).val

\* C12: thread 1 has ended a __contains__ that cached a key, while thread 2,
\* which probed the cache before that, is about to write the same key
C12_Witness ==
    /\ result[1].pc = "done" /\ call[1].op = "__contains__"
    /\ result[2].pc = "write"
    /\ upper(call[2].cmd_name) = upper(call[1].cmd_name)
    /\ upper(call[1].cmd_name) \in DOMAIN self._command_cache
    /\ upper(call[1].cmd_name) \notin DOMAIN ret.val._command_cache

(***************************************************************************)
(* Properties of update, checked under SpecMerge.                          *)
(***************************************************************************)
RECURSIVE InsertedUpTo(_, _, _)
\* what self[cmd_expr] = command gives for the k-th pair, after it was done
\* for the pairs before it: the first one that raises ends the sequence
InsertedUpTo(reg, pairs, k) ==
    IF k = 0 THEN Result(reg, "none", None)
    ELSE IF InsertedUpTo(reg, pairs, k - 1).exc # "none" THEN InsertedUpTo(reg, pairs, k - 1)
    ELSE setitem(InsertedUpTo(reg, pairs, k - 1).self, pairs[k][1], pairs[k][2])

\* the payload of the last pair of pairs whose expression is cmd_expr
LastPayload(pairs, cmd_expr) ==
    pairs[CHOOSE k \in 1..Len(pairs) :
              /\ pairs[k][1] = cmd_expr
              /\ \A j \in (k + 1)..Len(pairs) : pairs[j][1] # cmd_expr][2]

\* the number of entries of reg for cmd_expr
Entries(reg, cmd_expr) ==
    Cardinality({i \in 1..Len(reg.command_expressions) :
                     reg.command_expressions[i].key = cmd_expr})

\* update with pairs gave r: what inserting each pair in order gives, and
\* when no insertion raised, one entry for each expression, with the last
\* payload given for it
MergedPairs(r, reg, pairs) ==
    /\ r.self = InsertedUpTo(reg, pairs, Len(pairs)).self
    /\ r.exc = InsertedUpTo(reg, pairs, Len(pairs)).exc
    /\ r.exc = "none" =>
          \A k \in 1..Len(pairs) :
              /\ Entries(r.self, pairs[k][1]) = 1
              /\ dict_get(r.self.command_expressions, pairs[k][1]).value
                     = LastPayload(pairs, pairs[k][1])

Resolves(reg, text) == get_command(reg, text).exc = "none"

\* update with the registry other gave r: the union of the two backing
\* maps, the entries of other winning, and every text that resolved in reg
\* or in other resolves
MergedCommands(r, reg, other) ==
    /\ r.exc = "none"
    /\ dict_keys(r.self.command_expressions)
           = dict_keys(reg.command_expressions) \cup dict_keys(other.command_expressions)
    /\ \A cmd_expr \in dict_keys(r.self.command_expressions) :
          /\ Entries(r.self, cmd_expr) = 1
          /\ dict_get(r.self.command_expressions, cmd_expr) =
                 IF cmd_expr \in dict_keys(other.command_expressions)
                 THEN dict_get(other.command_expressions, cmd_expr)
                 ELSE dict_get(reg.command_expressions, cmd_expr)
    /\ \A s \in Texts :
          (Resolves(reg, s) \/ Resolves(other, s)) => Resolves(r.self, s)

=============================================================================
